---- MODULE Spec2Model ----
(***************************************************************************)
(* WKPostMessenger: request/acknowledgment protocol over a one-way         *)
(* postMessage transport.  The model follows src/unnamed/part_002 (the     *)
(* WKPostMessenger class and its timestampIdGenerator).                    *)
(*                                                                         *)
(* Execution model: JavaScript run-to-completion.  Macrotasks (timer       *)
(* callbacks, deliveries by the app through the two global entry points)   *)
(* run only when the promise-job (microtask) queue is empty; promise       *)
(* reactions run one job at a time in FIFO order; calls of the public API  *)
(* may come from any task or job of the embedding page.  The app may also  *)
(* answer a request re-entrantly, inside transport.postMessage.            *)
(***************************************************************************)
EXTENDS Naturals, Integers, Sequences, FiniteSets, TLC

VARIABLES
  phase,        \* "new" | "ready" | "failed": before / after the constructor
  transport,    \* "present" | "noentry" | "absent": window.webkit.messageHandlers[...]
  opts,         \* constructor options kept on the instance
  clock,        \* the latest reading of Date.now()
  gen,          \* closure state of timestampIdGenerator: inc, now, lastNow
  issued,       \* what next() returned so far, with the clock reading it took
  _connecting,  \* this._connecting
  _connected,   \* this._connected
  _whenReady,   \* this._whenReady: 0 = undefined, else index into attempts
  attempts,     \* the promise chain built by each sendHandshake() that sends:
                \* call (the _sendMessage promise), p2 (.then), ready (.catch,
                \* the value of _whenReady), value (rejection reason)
  calls,        \* one record per _sendMessage invocation (promise + timer)
  listeners,    \* this._emitter: calls whose callbackReceived is registered
  msgs,         \* one record per sendMessage invocation: the attempt it waits
                \* on, "waiting" | "sent" | "rejected", the call it made
  jobs,         \* promise-job queue
  sent,         \* envelopes handed to parent.postMessage, in order
  inbound,      \* one record per invocation of window[handlerGlobal]
  last          \* the operation that produced this state, and its outcome

vars == <<phase, transport, opts, clock, gen, issued, _connecting,
          _connected, _whenReady, attempts, calls, listeners, msgs, jobs, sent,
          inbound, last>>

----------------------------------------------------------------------------
(* Program constants *)

DEFAULT_TIMEOUT == 3000
HANDSHAKE_ACTION == "__WK_HANDSHAKE__"
CALLBACK_ACTION == "__WK_CALLBACK__"
MESSAGE_TYPE == "application/x-wkpostmessenger-v1+json"
HandlerGlobalDefault == "wkPostMessengerHandleMessage"
CallbackGlobalDefault == "wkPostMessengerCallback"
MsgTimeoutReason == "[WKPostMessenger] message acknowledgment timeout"
HandshakeTimeoutReason == "[WKPostMessenger] handshake acknowledgment timeout"
TypeErrorReason == "TypeError"

(* Bounds of the exploration *)

MaxClock == 1
MaxAttempts == 2
MaxMsgs == 2
MaxInbound == 2
\* calls of next() on a generator used on its own
MaxNext == 14
\* handshake attempts, sendMessage calls and inbound calls together
MaxOps == 3

(* Inputs *)

\* action and data are opaque to the channel: the m-th sendMessage call of
\* the page uses the m-th name, so that envelopes of different calls differ
ActionNames == <<"echo", "ping", "save", "load">>
ActionOf(m) == ActionNames[((m - 1) % Len(ActionNames)) + 1]
DataValues == {"d"}
\* what the app asks for, and what the i-th run of the user handler produces
InboundAction == "notify"
HandlerValues == <<"h1", "h2", "h3">>
HandlerValueOf(i) == HandlerValues[((i - 1) % Len(HandlerValues)) + 1]
\* the id the app gives its i-th call: its own correlation token
InboundIdOf(i) == <<7, i>>
\* the clock readings tried on a generator used on its own: equal, smaller
\* and larger readings, with one and with two digits
GenClockReadings == {0, 10}
Results == {"r1", "r2"}
\* the timeout argument of sendMessage: <<>> when omitted
TimeoutArgs == {<< >>, <<0>>}
\* the handshakeTimeout option: a negative value, and the default
HandshakeTimeouts == {-1, DEFAULT_TIMEOUT}
\* typeof this.handleMessage === 'function', read at each inbound call
HandlerKinds == {"none", "function"}
\* what a user handler does with one inbound call
HandlerOutcomes == {"value", "promise", "throw"}
\* an id that no generator call returns (ids have at least two digits)
BogusId == <<9>>
Undefined == -1
NoId == << >>

----------------------------------------------------------------------------
(* timestampIdGenerator *)

RECURSIVE ToDigits(_)
\* the decimal digits of n, as the template literal `${n}` prints them
ToDigits(n) == IF n < 10 THEN <<n>> ELSE ToDigits(n \div 10) \o <<n % 10>>

\* variant: the counter is not advanced within one millisecond
GenNextNoIncrement(g, dateNow) ==
  [lastNow |-> g.now,
   now     |-> dateNow,
   inc     |-> IF g.now = dateNow THEN g.inc ELSE 0]

\* next(): the closure state after the call
GenNext(g, dateNow) ==
  [lastNow |-> g.now,
   now     |-> dateNow,
   inc     |-> IF g.now = dateNow THEN g.inc + 1 ELSE 0]

\* the value returned with that state: `${inc}${now}`
GenValue(g) == ToDigits(g.inc) \o ToDigits(g.now)

GenInit == [inc |-> 0, now |-> Undefined, lastNow |-> Undefined]

\* one entry of `issued`
Issued(g) == [inc |-> g.inc, now |-> g.now, value |-> GenValue(g)]

----------------------------------------------------------------------------
(* The instance state as one record, so that a method can call another *)

St ==
  [phase |-> phase, transport |-> transport, opts |-> opts, clock |-> clock,
   gen |-> gen, issued |-> issued, _connecting |-> _connecting, _connected |-> _connected,
   _whenReady |-> _whenReady, attempts |-> attempts, calls |-> calls,
   listeners |-> listeners, msgs |-> msgs, jobs |-> jobs, sent |-> sent,
   inbound |-> inbound, last |-> last]

Apply(t) ==
  /\ phase' = t.phase
  /\ transport' = t.transport
  /\ opts' = t.opts
  /\ clock' = t.clock
  /\ gen' = t.gen
  /\ issued' = t.issued
  /\ _connecting' = t._connecting
  /\ _connected' = t._connected
  /\ _whenReady' = t._whenReady
  /\ attempts' = t.attempts
  /\ calls' = t.calls
  /\ listeners' = t.listeners
  /\ msgs' = t.msgs
  /\ jobs' = t.jobs
  /\ sent' = t.sent
  /\ inbound' = t.inbound
  /\ last' = t.last

\* the record kept in `last`: operation, id argument, index (returned
\* deferred, call or job subject), res: the result handed to the listeners
\* that ran ("" when none ran) or, for the constructor, its autoHandshake
\* option ("autoHandshake" when true, "" when false), re-entrant reply, thrown
Ev(op, id, n, res, re, threw) ==
  [op |-> op, id |-> id, n |-> n, res |-> res, re |-> re, threw |-> threw]

Job(type, n, v) == [type |-> type, n |-> n, v |-> v]

----------------------------------------------------------------------------
(* Promise settlement: the first resolve/reject wins, later ones are ignored *)

\* variant: a later resolve replaces the value of a resolved promise
PromiseResolveOverwrites(call, result) ==
  IF call.state \in {"pending", "resolved"}
  THEN [call EXCEPT !.state = "resolved", !.value = result]
  ELSE call

PromiseResolve(call, result) ==
  IF call.state = "pending"
  THEN [call EXCEPT !.state = "resolved", !.value = result]
  ELSE call

PromiseReject(call, reason) ==
  IF call.state = "pending"
  THEN [call EXCEPT !.state = "rejected", !.value = reason]
  ELSE call

(* clearTimeout(rejectTimeout): cancels an armed timer, otherwise nothing *)
ClearTimeout(call) ==
  [call EXCEPT !.timer = IF @ = "armed" THEN "cleared" ELSE @]

\* variant: the reply does not cancel the timer
callbackReceivedNoClear(call, result) ==
  [PromiseResolve(call, result) EXCEPT !.resolveCalled = TRUE]

(* callbackReceived of one call: clearTimeout, then resolve(result) *)
callbackReceived(call, result) ==
  [PromiseResolve(ClearTimeout(call), result) EXCEPT !.resolveCalled = TRUE]

(* the setTimeout callback of one call: reject(...); the off() is in        *)
(* EmitterOff                                                              *)
rejectTimeout(call) ==
  [PromiseReject(call, MsgTimeoutReason)
     EXCEPT !.timer = "fired", !.rejectCalled = TRUE]

(* this._emitter: on(id, callbackReceived), off(id, callbackReceived),     *)
(* trigger(id, result).  A listener is identified by the call that owns    *)
(* the callbackReceived closure; its event name is that call's id.         *)
EmitterOn(ls, c) == ls \cup {c}

\* variant: the timeout leaves the listener registered
EmitterOffNoop(ls, c) == ls

\* variant: the timeout removes every listener
EmitterOffAll(ls, c) == {}

EmitterOff(ls, c) == ls \ {c}

\* variant: a reply reaches every registered listener
ListeningAll(cs, ls, id) == ls

\* the listeners registered for event id
Listening(cs, ls, id) == {c \in ls : cs[c].id = id}

EmitterTrigger(cs, ls, id, result) ==
  [c \in DOMAIN cs |->
     IF c \in Listening(cs, ls, id)
     THEN callbackReceived(cs[c], result)
     ELSE cs[c]]

(* .then reactions of the handshake calls that settled between two values  *)
(* of `calls`, in the order in which the calls were made                   *)
ReactionJobs(atts, before, after) ==
  LET idx == [a \in 1..Len(atts) |-> a]
      settled(a) == /\ before[atts[a].call].state = "pending"
                    /\ after[atts[a].call].state # "pending"
      sel == SelectSeq(idx, settled)
  IN  [k \in 1..Len(sel) |-> Job("hsThen", sel[k], "")]

----------------------------------------------------------------------------
(* _sendMessage(action, data, timeout).  env is what the environment does  *)
(* during the call: env.now is the reading of Date.now(); env.reent is     *)
(* <<>> or <<r>>: the app answers this envelope with result r inside       *)
(* postMessage.                                                            *)

\* variant: a timer is armed unless the timeout is exactly 0
NewCallArmsNegative(id, action, data, timeout) ==
  [id |-> id, action |-> action, data |-> data, timeout |-> timeout,
   state |-> "pending", value |-> "",
   timer |-> IF timeout # 0 THEN "armed" ELSE "none",
   resolveCalled |-> FALSE, rejectCalled |-> FALSE]

\* variant: a timer is armed only for timeouts above the default
NewCallArmsOnlyLong(id, action, data, timeout) ==
  [id |-> id, action |-> action, data |-> data, timeout |-> timeout,
   state |-> "pending", value |-> "",
   timer |-> IF timeout > DEFAULT_TIMEOUT THEN "armed" ELSE "none",
   resolveCalled |-> FALSE, rejectCalled |-> FALSE]

NewCall(id, action, data, timeout) ==
  [id |-> id, action |-> action, data |-> data, timeout |-> timeout,
   state |-> "pending", value |-> "",
   timer |-> IF timeout > 0 THEN "armed" ELSE "none",
   resolveCalled |-> FALSE, rejectCalled |-> FALSE]

Payload(cb, id, action, data) ==
  [type |-> MESSAGE_TYPE, callback |-> cb, id |-> id, action |-> action,
   data |-> data]

\* variant: the listener is registered after postMessage returns
_sendMessageLateOn(s, action, data, timeout, env) ==
  LET g   == GenNext(s.gen, env.now)
      reent == env.reent
      id  == GenValue(g)
      c   == Len(s.calls) + 1
      cs0 == Append(s.calls, NewCall(id, action, data, timeout))
      ls0 == EmitterOn(s.listeners, c)
      cs1 == IF s.transport = "present"
             THEN IF reent = << >> THEN cs0
                  ELSE EmitterTrigger(cs0, s.listeners, id, reent[1])
             ELSE [cs0 EXCEPT ![c] = PromiseReject(@, TypeErrorReason)]
  IN  [s EXCEPT
         !.clock = env.now,
         !.gen = g,
         !.issued = Append(@, Issued(g)),
         !.calls = cs1,
         !.listeners = ls0,
         !.sent = IF s.transport = "present"
                  THEN Append(@, Payload(s.opts.cb, id, action, data))
                  ELSE @,
         !.jobs = @ \o ReactionJobs(s.attempts, cs0, cs1)]

_sendMessage(s, action, data, timeout, env) ==
  LET g   == GenNext(s.gen, env.now)
      reent == env.reent
      id  == GenValue(g)
      c   == Len(s.calls) + 1
      cs0 == Append(s.calls, NewCall(id, action, data, timeout))
      ls0 == EmitterOn(s.listeners, c)
      cs1 == IF s.transport = "present"
             THEN IF reent = << >> THEN cs0
                  ELSE EmitterTrigger(cs0, ls0, id, reent[1])
             \* this.parent is undefined: the executor throws
             ELSE [cs0 EXCEPT ![c] = PromiseReject(@, TypeErrorReason)]
  IN  [s EXCEPT
         !.clock = env.now,
         !.gen = g,
         !.issued = Append(@, Issued(g)),
         !.calls = cs1,
         !.listeners = ls0,
         !.sent = IF s.transport = "present"
                  THEN Append(@, Payload(s.opts.cb, id, action, data))
                  ELSE @,
         !.jobs = @ \o ReactionJobs(s.attempts, cs0, cs1)]

(* _sendMessageCallback(id, data) *)
_sendMessageCallback(s, id, data) ==
  IF s.transport = "present"
  THEN [s EXCEPT !.sent = Append(@, Payload("", id, CALLBACK_ACTION, data))]
  ELSE s

----------------------------------------------------------------------------
(* sendHandshake() *)

\* variant: no "already completed" check
SendHandshakeNeverThrows(s) == FALSE

SendHandshakeThrows(s) == s._connected

\* variant: a call made while connecting starts another attempt
sendHandshakeNoCoalesce(s, env) ==
  IF SendHandshakeThrows(s) THEN s
  ELSE LET s1 == [s EXCEPT !._connecting = TRUE]
           s2 == _sendMessage(s1, HANDSHAKE_ACTION, s.opts.hm,
                              s.opts.handshakeTimeout, env)
           c  == Len(s2.calls)
           a  == Len(s.attempts) + 1
       IN  [s2 EXCEPT
              !.attempts = Append(@, [call |-> c, p2 |-> "pending",
                                      ready |-> "pending", value |-> ""]),
              !._whenReady = a,
              !.jobs = IF s2.calls[c].state # "pending"
                       THEN Append(@, Job("hsThen", a, ""))
                       ELSE @]

\* variant: the two entry-point names are swapped in the handshake
sendHandshakeSwapsNames(s, env) ==
  IF SendHandshakeThrows(s) THEN s
  ELSE IF ~s._connecting
  THEN LET s1 == [s EXCEPT !._connecting = TRUE]
           s2 == _sendMessage(s1, HANDSHAKE_ACTION, s.opts.cb,
                              s.opts.handshakeTimeout, env)
           c  == Len(s2.calls)
           a  == Len(s.attempts) + 1
       IN  [s2 EXCEPT
              !.attempts = Append(@, [call |-> c, p2 |-> "pending",
                                      ready |-> "pending", value |-> ""]),
              !._whenReady = a,
              !.jobs = IF s2.calls[c].state # "pending"
                       THEN Append(@, Job("hsThen", a, ""))
                       ELSE @]
  ELSE s

sendHandshake(s, env) ==
  IF SendHandshakeThrows(s) THEN s
  ELSE IF ~s._connecting
  THEN LET s1 == [s EXCEPT !._connecting = TRUE]
           s2 == _sendMessage(s1, HANDSHAKE_ACTION, s.opts.hm,
                              s.opts.handshakeTimeout, env)
           c  == Len(s2.calls)
           a  == Len(s.attempts) + 1
       IN  [s2 EXCEPT
              !.attempts = Append(@, [call |-> c, p2 |-> "pending",
                                      ready |-> "pending", value |-> ""]),
              !._whenReady = a,
              \* .then on a promise that settled inside the executor
              !.jobs = IF s2.calls[c].state # "pending"
                       THEN Append(@, Job("hsThen", a, ""))
                       ELSE @]
  ELSE s

\* variant: every sendMessage made before the handshake settles sends a
\* handshake of its own
sendMessageRehandshake(s, action, data, targ, env) ==
  LET s1 == IF s._whenReady = 0
            THEN sendHandshake(s, env)
            ELSE IF s.attempts[s._whenReady].ready = "pending"
            THEN sendHandshakeNoCoalesce(s, env)
            ELSE s
      a  == s1._whenReady
      m  == Len(s.msgs) + 1
      timeout == IF targ = << >> THEN s.opts.messageTimeout ELSE targ[1]
  IN  [s1 EXCEPT
         !.msgs = Append(@, [action |-> action, data |-> data,
                             timeout |-> timeout, att |-> a,
                             stage |-> "waiting", call |-> 0,
                             value |-> ""]),
         !.jobs = IF s1.attempts[a].ready # "pending"
                  THEN Append(@, Job("msgThen", m, ""))
                  ELSE @]

\* variant: a sendMessage on an unconnected channel starts a handshake
sendMessageRetries(s, action, data, targ, env) ==
  LET s1 == IF s._whenReady = 0 \/ (~s._connecting /\ ~s._connected)
            THEN sendHandshake(s, env)
            ELSE s
      a  == s1._whenReady
      m  == Len(s.msgs) + 1
      timeout == IF targ = << >> THEN s.opts.messageTimeout ELSE targ[1]
  IN  [s1 EXCEPT
         !.msgs = Append(@, [action |-> action, data |-> data,
                             timeout |-> timeout, att |-> a,
                             stage |-> "waiting", call |-> 0,
                             value |-> ""]),
         !.jobs = IF s1.attempts[a].ready # "pending"
                  THEN Append(@, Job("msgThen", m, ""))
                  ELSE @]

(* sendMessage(action, data, timeout = this._messageTimeout) *)
sendMessage(s, action, data, targ, env) ==
  LET s1 == IF s._whenReady = 0 THEN sendHandshake(s, env) ELSE s
      a  == s1._whenReady
      m  == Len(s.msgs) + 1
      timeout == IF targ = << >> THEN s.opts.messageTimeout ELSE targ[1]
  IN  [s1 EXCEPT
         !.msgs = Append(@, [action |-> action, data |-> data,
                             timeout |-> timeout, att |-> a,
                             stage |-> "waiting", call |-> 0,
                             value |-> ""]),
         \* .then on an already settled _whenReady
         !.jobs = IF s1.attempts[a].ready # "pending"
                  THEN Append(@, Job("msgThen", m, ""))
                  ELSE @]

----------------------------------------------------------------------------
(* Promise jobs *)

\* variant: the reactions registered on _whenReady are dropped
WaitersNone(s, a) == << >>

\* variant: the reactions run in the reverse of the registration order
WaitersReversed(s, a) ==
  LET idx == [m \in 1..Len(s.msgs) |-> m]
      waits(m) == s.msgs[m].att = a /\ s.msgs[m].stage = "waiting"
      sel == SelectSeq(idx, waits)
  IN  [k \in 1..Len(sel) |-> Job("msgThen", sel[Len(sel) + 1 - k], "")]

(* the .then(() => this._sendMessage(...)) reactions registered on the     *)
(* _whenReady of attempt a, in registration order                          *)
Waiters(s, a) ==
  LET idx == [m \in 1..Len(s.msgs) |-> m]
      waits(m) == s.msgs[m].att = a /\ s.msgs[m].stage = "waiting"
      sel == SelectSeq(idx, waits)
  IN  [k \in 1..Len(sel) |-> Job("msgThen", sel[k], "")]

\* variant: the reaction connects the channel however the call settled
JobHsThenAlwaysConnects(s, a) ==
  [s EXCEPT !._connected = TRUE,
            !.attempts[a].p2 = "resolved",
            !.jobs = Append(@, Job("hsCatch", a, ""))]

(* reaction of .then(() => { this._connected = true; }) on the handshake   *)
(* call of attempt a; a rejection passes through to the derived promise    *)
JobHsThen(s, a) ==
  IF s.calls[s.attempts[a].call].state = "resolved"
  THEN [s EXCEPT !._connected = TRUE,
                 !.attempts[a].p2 = "resolved",
                 !.jobs = Append(@, Job("hsCatch", a, ""))]
  ELSE [s EXCEPT !.attempts[a].p2 = "rejected",
                 !.jobs = Append(@, Job("hsCatch", a, ""))]

\* variant: the catch handler does not reset _connecting
JobHsCatchKeepConnecting(s, a) ==
  IF s.attempts[a].p2 = "resolved"
  THEN [s EXCEPT !.attempts[a].ready = "resolved",
                 !.jobs = @ \o Waiters(s, a)]
  ELSE [s EXCEPT !.jobs = Append(@, Job("hsAdopt", a, ""))]

(* reaction of .catch(() => { this._connecting = false; return             *)
(* Promise.reject(...) }); a fulfilment passes through and settles         *)
(* _whenReady                                                              *)
JobHsCatch(s, a) ==
  IF s.attempts[a].p2 = "resolved"
  THEN [s EXCEPT !.attempts[a].ready = "resolved",
                 !.jobs = @ \o Waiters(s, a)]
  ELSE [s EXCEPT !._connecting = FALSE,
                 !.jobs = Append(@, Job("hsAdopt", a, ""))]

(* _whenReady adopts the rejected promise returned by the catch handler *)
JobHsAdopt(s, a) ==
  [s EXCEPT !.attempts[a].ready = "rejected",
            !.attempts[a].value = HandshakeTimeoutReason,
            !.jobs = @ \o Waiters(s, a)]

\* variant: the message is sent whatever became of the handshake
JobMsgThenAlways(s, m, env) ==
  LET s2 == _sendMessage(s, s.msgs[m].action, s.msgs[m].data,
                         s.msgs[m].timeout, env)
  IN  [s2 EXCEPT !.msgs[m].stage = "sent",
                 !.msgs[m].call = Len(s2.calls)]

(* reaction of _whenReady.then(() => this._sendMessage(action, data,       *)
(* timeout)) of sendMessage invocation m                                   *)
JobMsgThen(s, m, env) ==
  IF s.attempts[s.msgs[m].att].ready = "resolved"
  THEN LET s2 == _sendMessage(s, s.msgs[m].action, s.msgs[m].data,
                              s.msgs[m].timeout, env)
       IN  [s2 EXCEPT !.msgs[m].stage = "sent",
                      !.msgs[m].call = Len(s2.calls)]
  ELSE [s EXCEPT !.msgs[m].stage = "rejected",
                 !.msgs[m].value = s.attempts[s.msgs[m].att].value]

\* variant: the reaction replies without the settled value
JobInbThenDropsValue(s, i, v) ==
  [_sendMessageCallback(s, s.inbound[i].id, "undefined")
     EXCEPT !.inbound[i].state =
              IF s.transport = "present" THEN "replied" ELSE "threw"]

(* reaction of result.then(promiseResult => this._sendMessageCallback(id,  *)
(* promiseResult)) of inbound call i                                       *)
JobInbThen(s, i, v) ==
  [_sendMessageCallback(s, s.inbound[i].id, v)
     EXCEPT !.inbound[i].state =
              IF s.transport = "present" THEN "replied" ELSE "threw"]

RunJobStep(s, env) ==
  LET j  == Head(s.jobs)
      s0 == [s EXCEPT !.jobs = Tail(@)]
  IN  CASE j.type = "hsThen"  -> JobHsThen(s0, j.n)
        [] j.type = "hsCatch" -> JobHsCatch(s0, j.n)
        [] j.type = "hsAdopt" -> JobHsAdopt(s0, j.n)
        [] j.type = "msgThen" -> JobMsgThen(s0, j.n, env)
        [] j.type = "inbThen" -> JobInbThen(s0, j.n, j.v)

----------------------------------------------------------------------------
(* The two global entry points and the timers *)

(* window[callbackGlobal](id, result) *)
callbackGlobal(s, id, result) ==
  LET cs == EmitterTrigger(s.calls, s.listeners, id, result)
  IN  [s EXCEPT !.calls = cs,
                !.jobs = @ \o ReactionJobs(s.attempts, s.calls, cs)]

\* variant: any timeout resets the connection flags
timerExpiresResets(s, c) ==
  LET cs == [s.calls EXCEPT ![c] = rejectTimeout(@)]
  IN  [s EXCEPT !.listeners = EmitterOff(@, c),
                !.calls = cs,
                !._connecting = FALSE,
                !._connected = FALSE,
                !.jobs = @ \o ReactionJobs(s.attempts, s.calls, cs)]

(* the setTimeout callback armed by _sendMessage for call c *)
timerExpires(s, c) ==
  LET cs == [s.calls EXCEPT ![c] = rejectTimeout(@)]
  IN  [s EXCEPT !.listeners = EmitterOff(@, c),
                !.calls = cs,
                !.jobs = @ \o ReactionJobs(s.attempts, s.calls, cs)]

(* _handleMessage(action, data): TRUE when a user handler is called *)
_handleMessage(h) == h = "function"

\* variant: without a user handler the call is dropped
handlerGlobalSkipsNoHandler(s, h, id, action, data, outcome, v) ==
  LET rec(st, val) == [id |-> id, action |-> action, data |-> data,
                       handler |-> h, outcome |-> outcome, state |-> st,
                       value |-> val]
  IN  IF ~_handleMessage(h)
      THEN [s EXCEPT !.inbound = Append(@, rec("replied", "null"))]
      ELSE CASE outcome = "throw" ->
                  [s EXCEPT !.inbound = Append(@, rec("threw", ""))]
             [] outcome = "promise" ->
                  [s EXCEPT !.inbound = Append(@, rec("pending", ""))]
             [] outcome = "value" ->
                  [_sendMessageCallback(s, id, v)
                     EXCEPT !.inbound = Append(@, rec("replied", v))]

(* window[handlerGlobal](id, action, data); outcome says what the user     *)
(* handler does with this call, v is the value it produces                 *)
handlerGlobal(s, h, id, action, data, outcome, v) ==
  LET rec(st, val) == [id |-> id, action |-> action, data |-> data,
                       handler |-> h, outcome |-> outcome, state |-> st,
                       value |-> val]
      replied == IF s.transport = "present" THEN "replied" ELSE "threw"
  IN  IF ~_handleMessage(h)
      THEN [_sendMessageCallback(s, id, "null")
              EXCEPT !.inbound = Append(@, rec(replied, "null"))]
      ELSE CASE outcome = "throw" ->
                  [s EXCEPT !.inbound = Append(@, rec("threw", ""))]
             [] outcome = "promise" ->
                  [s EXCEPT !.inbound = Append(@, rec("pending", ""))]
             [] outcome = "value" ->
                  [_sendMessageCallback(s, id, v)
                     EXCEPT !.inbound = Append(@, rec(replied, v))]

(* the promise returned by the user handler for inbound call i settles *)
handlerSettles(s, i, ok, v) ==
  IF ok
  THEN [s EXCEPT !.inbound[i].state = "resolved",
                 !.inbound[i].value = v,
                 !.jobs = Append(@, Job("inbThen", i, v))]
  ELSE [s EXCEPT !.inbound[i].state = "rejected"]

----------------------------------------------------------------------------
(* constructor(options) *)

DefaultOpts ==
  [hm |-> HandlerGlobalDefault,
   cb |-> CallbackGlobalDefault, handshakeTimeout |-> DEFAULT_TIMEOUT,
   messageTimeout |-> DEFAULT_TIMEOUT]

constructor(s, o, autoHandshake, env) ==
  IF s.transport = "absent"
  THEN [s EXCEPT !.phase = "failed"]
  ELSE LET s0 == [s EXCEPT !.phase = "ready", !.opts = o]
       IN  IF autoHandshake THEN sendHandshake(s0, env) ELSE s0

----------------------------------------------------------------------------
(* Actions *)

Ops == Len(attempts) + Len(msgs) + Len(inbound)

Reents == {<< >>} \cup {<<r>> : r \in Results}

\* what the environment may do during a call that sends (sends = TRUE) or
\* does not send an envelope
Envs(sends) ==
  IF sends /\ transport = "present"
  THEN [now : clock..MaxClock, reent : Reents]
  ELSE IF sends THEN [now : clock..MaxClock, reent : {<< >>}]
  ELSE [now : {clock}, reent : {<< >>}]

InitBase ==
  /\ phase = "new"
  /\ opts = DefaultOpts
  /\ clock = 0
  /\ gen = GenInit
  /\ issued = << >>
  /\ _connecting = FALSE
  /\ _connected = FALSE
  /\ _whenReady = 0
  /\ attempts = << >>
  /\ calls = << >>
  /\ listeners = {}
  /\ msgs = << >>
  /\ jobs = << >>
  /\ sent = << >>
  /\ inbound = << >>
  /\ last = Ev("init", NoId, 0, "", << >>, FALSE)

\* the send target named by scriptMessageHandler was located
Init == InitBase /\ transport = "present"

Construct ==
  /\ phase = "new"
  /\ \E auto \in BOOLEAN, hsT \in HandshakeTimeouts :
     \E env \in Envs(auto /\ transport # "absent") :
       LET o == [DefaultOpts EXCEPT !.handshakeTimeout = hsT]
           t == constructor(St, o, auto, env)
       IN  Apply([t EXCEPT !.last = Ev("construct", NoId, t._whenReady,
                                       IF auto THEN "autoHandshake" ELSE "",
                                       env.reent, t.phase = "failed")])

SendHandshake ==
  /\ phase = "ready"
  /\ (~_connected /\ ~_connecting) =>
       (Len(attempts) < MaxAttempts /\ Ops < MaxOps)
  /\ \E env \in Envs(~_connected /\ ~_connecting) :
       LET t == sendHandshake(St, env)
       IN  Apply([t EXCEPT !.last =
              Ev("sendHandshake", NoId,
                 IF SendHandshakeThrows(St) THEN 0 ELSE t._whenReady,
                 "", env.reent, SendHandshakeThrows(St))])

SendMessage ==
  /\ phase = "ready"
  /\ Len(msgs) < MaxMsgs
  /\ Ops + (IF _whenReady = 0 THEN 1 ELSE 0) < MaxOps
  /\ \E data \in DataValues, targ \in TimeoutArgs :
     \E env \in Envs(_whenReady = 0) :
       LET t == sendMessage(St, ActionOf(Len(msgs) + 1), data, targ, env)
       IN  Apply([t EXCEPT !.last = Ev("sendMessage", NoId, Len(t.msgs),
                                       "", env.reent, FALSE)])

KnownIds == {calls[c].id : c \in DOMAIN calls} \cup {BogusId}

Reply ==
  /\ phase = "ready"
  /\ jobs = << >>
  /\ \E id \in KnownIds, result \in Results :
       Apply([callbackGlobal(St, id, result)
                EXCEPT !.last = Ev("reply", id, 0,
                                   IF Listening(calls, listeners, id) = {}
                                   THEN "" ELSE result,
                                   << >>, FALSE)])

TimerFire ==
  /\ phase = "ready"
  /\ jobs = << >>
  /\ \E c \in DOMAIN calls :
       /\ calls[c].timer = "armed"
       /\ Apply([timerExpires(St, c)
                   EXCEPT !.last = Ev("timer", calls[c].id, c, "", << >>,
                                      FALSE)])

RunJob ==
  /\ jobs # << >>
  /\ \E env \in Envs(/\ Head(jobs).type = "msgThen"
                     /\ attempts[msgs[Head(jobs).n].att].ready = "resolved") :
       Apply([RunJobStep(St, env)
                EXCEPT !.last = Ev(Head(jobs).type, NoId, Head(jobs).n,
                                   "", env.reent, FALSE)])

Inbound ==
  /\ phase = "ready"
  /\ jobs = << >>
  /\ Len(inbound) < MaxInbound
  /\ Ops < MaxOps
  /\ \E h \in HandlerKinds, data \in DataValues,
        outcome \in HandlerOutcomes :
       /\ (~_handleMessage(h)) => (outcome = "value")
       /\ LET id == InboundIdOf(Len(inbound) + 1)
              t == handlerGlobal(St, h, id, InboundAction, data, outcome,
                                 HandlerValueOf(Len(inbound) + 1))
          IN  Apply([t EXCEPT !.last =
                 Ev("inbound", id, Len(t.inbound), "", << >>,
                    t.inbound[Len(t.inbound)].state = "threw")])

HandlerSettle ==
  /\ phase = "ready"
  /\ \E i \in DOMAIN inbound, ok \in BOOLEAN :
       /\ inbound[i].state = "pending"
       /\ Apply([handlerSettles(St, i, ok, HandlerValueOf(i))
                   EXCEPT !.last = Ev("handlerSettle", inbound[i].id, i, "",
                                      << >>, FALSE)])

Next ==
  \/ Construct
  \/ SendHandshake
  \/ SendMessage
  \/ Reply
  \/ TimerFire
  \/ RunJob
  \/ Inbound
  \/ HandlerSettle

Spec == Init /\ [][Next]_vars

(* The event loop makes progress: an armed timer eventually fires (its     *)
(* task runs once the promise jobs are done), and a queued promise job     *)
(* eventually runs.  Nothing is assumed of the app or of the page.         *)
SpecLive == Init /\ [][Next]_vars /\ WF_vars(TimerFire) /\ WF_vars(RunJob)

(* The constructor in every environment: the send target located, the     *)
(* container window.webkit.messageHandlers there without an entry under    *)
(* the configured name, or no container at all                             *)
TransportKinds == {"present", "noentry", "absent"}

InitCtor == InitBase /\ transport \in TransportKinds

SpecCtor == InitCtor /\ [][Next]_vars

(* timestampIdGenerator() used on its own: next() called again and again,  *)
(* Date.now() reading any of the values tried                              *)
IdGenNext ==
  /\ Len(issued) < MaxNext
  /\ \E dateNow \in GenClockReadings :
       LET g == GenNext(gen, dateNow)
       IN  /\ gen' = g
           /\ clock' = dateNow
           /\ issued' = Append(issued, Issued(g))
           /\ last' = Ev("next", GenValue(g), Len(issued) + 1, "", << >>,
                         FALSE)
  /\ UNCHANGED <<phase, transport, opts, _connecting, _connected, _whenReady,
                 attempts, calls, listeners, msgs, jobs, sent, inbound>>

NextGen == IdGenNext

SpecGen == Init /\ [][NextGen]_vars

----------------------------------------------------------------------------
(* Vocabulary of the properties *)

HsCalls == {attempts[a].call : a \in DOMAIN attempts}

OrdinaryCalls == DOMAIN calls \ HsCalls

\* the connection state of spec section 4.4
ConnState ==
  IF _connected THEN "connected"
  ELSE IF _connecting THEN "connecting" ELSE "unconnected"

HsEnvelopes(q) == {i \in DOMAIN q : q[i].action = HANDSHAKE_ACTION}

OrdinaryEnvelopes(q) ==
  {i \in DOMAIN q : q[i].action \notin {HANDSHAKE_ACTION, CALLBACK_ACTION}}

\* the deferred returned by sendMessage invocation m: the promise derived
\* from _whenReady, which follows the promise of the call it makes
MsgDeferred(m) ==
  CASE msgs[m].stage = "rejected" ->
         [state |-> "rejected", value |-> msgs[m].value]
    [] msgs[m].stage = "sent" ->
         [state |-> calls[msgs[m].call].state,
          value |-> calls[msgs[m].call].value]
    [] OTHER -> [state |-> "pending", value |-> ""]

\* everything but `last`
progVars == <<phase, transport, opts, clock, gen, issued, _connecting,
              _connected, _whenReady, attempts, calls, listeners, msgs, jobs,
              sent, inbound>>

----------------------------------------------------------------------------
(* Outbound calls *)

C1_NeverBoth ==
  \A c \in DOMAIN calls :
    /\ ~(calls[c].resolveCalled /\ calls[c].rejectCalled)
    /\ calls[c].state = "resolved" => calls[c].resolveCalled
    /\ calls[c].state = "rejected" => calls[c].rejectCalled

C1_Stable ==
  \A c \in DOMAIN calls :
    calls[c].state # "pending" =>
      /\ calls'[c].state = calls[c].state
      /\ calls'[c].value = calls[c].value

\* C1: the promise of every _sendMessage call (handshake or ordinary) settles
\* at most once: a call is never both answered (callbackReceived ran) and
\* timed out (the timer callback ran), a resolved call was answered, a
\* rejected call timed out, and once settled its state and value never change,
\* whatever replies (duplicates included) and timer expiries follow.
C1_SettlesAtMostOnce == [](C1_NeverBoth) /\ [][C1_Stable]_vars

\* a resolved call has just received a duplicate reply with another payload
C1_Witness ==
  \E c \in DOMAIN calls :
    /\ calls[c].state = "resolved"
    /\ last.op = "reply"
    /\ last.id = calls[c].id
    /\ last.res \notin {"", calls[c].value}

C2_Step ==
  last'.op = "reply" =>
    \A c \in DOMAIN calls :
      IF c \in listeners /\ calls[c].id = last'.id /\ calls[c].state = "pending"
      THEN calls'[c].state = "resolved" /\ calls'[c].value = last'.res
      ELSE calls'[c].state = calls[c].state /\ calls'[c].value = calls[c].value

\* C2: a reply delivered through window[callbackGlobal] with id i and result r
\* resolves exactly the pending calls whose id is i, with r, and leaves the
\* state and value of every other call as they were; so with several calls
\* pending under distinct ids, each resolves with the payload of the reply
\* that carries its own id, in whatever order the replies come.
C2_OwnReplyOnly == [][C2_Step]_vars

\* two ordinary calls were pending together and the later one was answered
\* first
C2_Witness ==
  \E m1, m2 \in DOMAIN msgs :
    /\ m1 < m2
    /\ msgs[m1].stage = "sent" /\ msgs[m2].stage = "sent"
    /\ calls[msgs[m1].call].id # calls[msgs[m2].call].id
    /\ calls[msgs[m1].call].state = "pending"
    /\ MsgDeferred(m2) = [state |-> "resolved", value |-> last.res]
    /\ last.op = "reply"
    /\ last.id = calls[msgs[m2].call].id

C3_Rejected ==
  \A c \in OrdinaryCalls :
    calls[c].timer = "fired" =>
      /\ calls[c].timeout > 0
      /\ calls[c].state = "rejected"
      /\ calls[c].value = MsgTimeoutReason

C3_LateReply ==
  (/\ last'.op = "reply"
   /\ \E c \in OrdinaryCalls : calls[c].id = last'.id /\ calls[c].timer = "fired")
  => (~last'.threw /\ UNCHANGED progVars)

\* C3: an ordinary call whose timer (timeout > 0) expired before any reply is
\* rejected with the message acknowledgment timeout, and a reply for its id
\* delivered afterwards does not throw and changes no part of the state (the
\* call stays rejected).
C3_TimeoutThenLateReplyIgnored == [](C3_Rejected) /\ [][C3_LateReply]_vars

\* a reply for the id of a timed-out ordinary call has just been delivered
C3_Witness ==
  \E c \in OrdinaryCalls :
    /\ calls[c].timer = "fired"
    /\ calls[c].state = "rejected"
    /\ last.op = "reply"
    /\ last.id = calls[c].id

----------------------------------------------------------------------------
(* Handshake gating *)

C4_Sent ==
  \A i \in OrdinaryEnvelopes(sent) :
    /\ _connected
    /\ \E j \in HsEnvelopes(sent), a \in DOMAIN attempts :
         /\ j < i
         /\ calls[attempts[a].call].id = sent[j].id
         /\ attempts[a].ready = "resolved"

C4_Step == \A i \in OrdinaryEnvelopes(sent') \ DOMAIN sent : _connected

\* C4: an ordinary request envelope is handed to postMessage only in a step
\* that starts with _connected set, and every ordinary envelope in the send
\* log comes after the handshake envelope of an attempt that succeeded.
C4_HandshakeBeforeMessages == [](C4_Sent) /\ [][C4_Step]_vars

\* an ordinary request envelope has been sent
C4_Witness ==
  /\ OrdinaryEnvelopes(sent) # {}
  /\ last.op = "msgThen"

C5_Step ==
  last'.op = "sendMessage" =>
    /\ Cardinality(HsEnvelopes(sent')) =
         Cardinality(HsEnvelopes(sent)) + (IF _whenReady = 0 THEN 1 ELSE 0)
    /\ Len(sent') = Len(sent) + (IF _whenReady = 0 THEN 1 ELSE 0)

C5_Unsettled ==
  (Len(attempts) = 1 /\ attempts[1].ready = "pending") =>
    Cardinality(HsEnvelopes(sent)) = 1

\* C5: a sendMessage call made when no handshake was ever initiated
\* (_whenReady undefined) sends exactly one envelope, a handshake; a
\* sendMessage call made later sends none; and as long as that first
\* handshake has not settled the send log holds exactly one handshake
\* envelope, however many sendMessage calls were made.
C5_OneImplicitHandshake == [](C5_Unsettled) /\ [][C5_Step]_vars

\* the first sendMessage of a channel built without handshake has just sent
\* the handshake itself (the app answered it inside postMessage)
C5_Witness ==
  /\ last.op = "sendMessage"
  /\ last.re # << >>
  /\ Len(msgs) = 1
  /\ Cardinality(HsEnvelopes(sent)) = 1

----------------------------------------------------------------------------
(* Handshake state machine *)

C6_Step ==
  (last'.op = "sendHandshake" /\ ConnState = "connecting") =>
    /\ ~last'.threw
    /\ last'.n = _whenReady
    /\ UNCHANGED progVars

C6_OnePerAttempt == Cardinality(HsEnvelopes(sent)) = Len(attempts)

\* C6: a sendHandshake() call made in state connecting does not throw,
\* returns the _whenReady of the attempt in flight (the deferred the first
\* call returned) and changes nothing: no envelope, no new attempt; the send
\* log holds exactly one handshake envelope per attempt.
C6_ConcurrentHandshakeCoalesced == [](C6_OnePerAttempt) /\ [][C6_Step]_vars

\* sendHandshake() has just been called again while the attempt that a
\* sendMessage call already waits on was still unanswered
C6_Witness ==
  /\ last.op = "sendHandshake"
  /\ ~last.threw
  /\ ConnState = "connecting"
  /\ Len(attempts) = 1
  /\ last.n = 1
  /\ calls[attempts[1].call].state = "pending"
  /\ Len(msgs) >= 1
  /\ msgs[1].att = 1
  /\ Cardinality(HsEnvelopes(sent)) = 1

C7_Step ==
  (last'.op = "sendHandshake" /\ ConnState = "connected") =>
    /\ last'.threw
    /\ UNCHANGED progVars

\* C7: a sendHandshake() call made in state connected throws and changes
\* nothing: no envelope is sent, the connection flags, the listeners and the
\* calls stay as they were.
C7_HandshakeAfterConnectedThrows == [][C7_Step]_vars

\* sendHandshake() has just thrown on a connected channel
C7_Witness ==
  /\ last.op = "sendHandshake"
  /\ last.threw
  /\ ConnState = "connected"

C8_Failed ==
  \A a \in DOMAIN attempts :
    /\ (jobs = << >> /\ calls[attempts[a].call].timer = "fired") =>
         attempts[a].ready = "rejected"
    /\ attempts[a].ready = "rejected" =>
         /\ attempts[a].value = HandshakeTimeoutReason
         /\ a = Len(attempts) => ConnState = "unconnected"

C8_Retry ==
  (last'.op = "sendHandshake" /\ ConnState = "unconnected" /\ attempts # << >>) =>
    /\ ~last'.threw
    /\ ConnState' = "connecting"
    /\ Len(attempts') = Len(attempts) + 1
    /\ last'.n = Len(attempts')
    /\ Len(sent') = Len(sent) + 1
    /\ sent'[Len(sent')].action = HANDSHAKE_ACTION
    /\ \A i \in DOMAIN sent : sent[i].id # sent'[Len(sent')].id

\* C8: when the timer of a handshake call expired, then once the promise
\* jobs have run the attempt's deferred is rejected with the handshake
\* acknowledgment timeout; while a rejected attempt is the latest one the
\* state is unconnected; and a sendHandshake() call made then starts a new
\* attempt: state connecting, one more handshake envelope, whose id differs
\* from every id sent before.  (That the new attempt can succeed is the
\* witness.)
C8_HandshakeTimeoutAllowsRetry == [](C8_Failed) /\ [][C8_Retry]_vars

\* the first attempt timed out and the second one has connected the channel
C8_Witness ==
  /\ Len(attempts) = 2
  /\ calls[attempts[1].call].timer = "fired"
  /\ attempts[1].ready = "rejected"
  /\ attempts[2].ready = "resolved"
  /\ ConnState = "connected"

\* C9: a sendMessage call that waits on a handshake attempt whose deferred is
\* rejected never makes a call and no envelope with its action is in the send
\* log, and once the promise jobs have run its deferred is rejected with the
\* handshake acknowledgment timeout.
C9_FailedHandshakeRejectsMessages ==
  \A m \in DOMAIN msgs :
    attempts[msgs[m].att].ready = "rejected" =>
      /\ msgs[m].stage # "sent"
      /\ msgs[m].call = 0
      /\ \A i \in DOMAIN sent : sent[i].action # msgs[m].action
      /\ jobs = << >> =>
           MsgDeferred(m) = [state |-> "rejected",
                             value |-> HandshakeTimeoutReason]

\* two sendMessage calls waited on the same attempt, which failed, and both
\* are rejected
C9_Witness ==
  /\ Len(msgs) = 2
  /\ msgs[1].att = msgs[2].att
  /\ attempts[msgs[1].att].ready = "rejected"
  /\ MsgDeferred(1).state = "rejected"
  /\ MsgDeferred(2).state = "rejected"
  /\ sent = <<Payload(opts.cb, calls[1].id, HANDSHAKE_ACTION, opts.hm)>>

\* C10: no step leaves the connected state.
C10_ConnectedIsTerminal ==
  [][ConnState = "connected" => ConnState' = "connected"]_vars

\* on a connected channel the timer of an ordinary call has just expired
C10_Witness ==
  /\ ConnState = "connected"
  /\ last.op = "timer"
  /\ last.n \in OrdinaryCalls

----------------------------------------------------------------------------
(* Inbound calls *)

\* the reply envelopes in q that carry id
Replies(q, id) ==
  {k \in DOMAIN q : q[k].action = CALLBACK_ACTION /\ q[k].id = id}

\* the reply envelope that answers an inbound call
ReplyEnvelope(id, data) == Payload("", id, CALLBACK_ACTION, data)

\* C11: every invocation of window[handlerGlobal] whose handling has ended
\* (the handler returned or threw, or the reaction on the handler's promise
\* ran) has exactly one reply envelope with its id among the envelopes sent,
\* and no invocation ever has more than one.
C11_ExactlyOneReply ==
  \A i \in DOMAIN inbound :
    /\ Cardinality(Replies(sent, inbound[i].id)) <= 1
    /\ inbound[i].state \in {"replied", "threw"} =>
         Cardinality(Replies(sent, inbound[i].id)) = 1

C12_Sync(r) == r.handler = "none" \/ r.outcome = "value"

C12_One ==
  \A i \in DOMAIN inbound :
    C12_Sync(inbound[i]) => Cardinality(Replies(sent, inbound[i].id)) = 1

C12_Step ==
  last'.op = "inbound" =>
    LET i == Len(inbound')
        r == inbound'[i]
    IN  /\ i = Len(inbound) + 1
        /\ C12_Sync(r) =>
             sent' = Append(sent,
                            ReplyEnvelope(InboundIdOf(i),
                                          IF r.handler = "none" THEN "null"
                                          ELSE HandlerValueOf(i)))

\* C12: when the user handler returns a plain value v, or no handler is
\* configured, the invocation of window[handlerGlobal] itself appends exactly
\* one envelope to the envelopes sent: the reply with the reserved reply
\* action, the id of the inbound call and data v (null without a handler);
\* and that call has exactly one reply envelope ever after.
C12_PlainValueRepliedAtOnce == [](C12_One) /\ [][C12_Step]_vars

\* both kinds of synchronous answer happened: a call without a handler and
\* a call whose handler returned a value
C12_Witness ==
  /\ Len(inbound) = 2
  /\ inbound[1].handler = "none" /\ inbound[1].state = "replied"
  /\ inbound[2].handler = "function" /\ inbound[2].outcome = "value"
  /\ inbound[2].state = "replied"
  /\ last.op = "inbound"
  /\ sent[Len(sent)] = ReplyEnvelope(inbound[2].id, inbound[2].value)

C13_Deferred ==
  \A i \in DOMAIN inbound :
    (inbound[i].handler = "function" /\ inbound[i].outcome = "promise") =>
      /\ inbound[i].state \in {"pending", "resolved", "rejected"} =>
           Replies(sent, inbound[i].id) = {}
      /\ inbound[i].state = "resolved" =>
           \E k \in DOMAIN jobs :
             jobs[k] = Job("inbThen", i, inbound[i].value)
      /\ inbound[i].state = "replied" =>
           \E k \in DOMAIN sent :
             /\ Replies(sent, inbound[i].id) = {k}
             /\ sent[k] = ReplyEnvelope(inbound[i].id, inbound[i].value)

C13_Step ==
  /\ (last'.op = "handlerSettle" /\ inbound'[last'.n].state = "resolved") =>
       inbound'[last'.n].value = HandlerValueOf(last'.n)
  /\ last'.op = "inbThen" =>
       sent' = Append(sent, ReplyEnvelope(inbound[last'.n].id,
                                          inbound[last'.n].value))

\* C13: while the promise returned by the user handler is pending, and until
\* the reaction on its fulfilment runs, no reply envelope with the id of that
\* inbound call is sent; its fulfilment with v queues that reaction, and the
\* reaction sends exactly one reply envelope with that id and data v,
\* whatever inbound and outbound calls were handled in between.
C13_PromiseReplyDeferred == [](C13_Deferred) /\ [][C13_Step]_vars

\* the first inbound call was answered after its promise settled, and a
\* second inbound call and a handshake were handled while it was pending
C13_Witness ==
  /\ Len(inbound) = 2 /\ Len(sent) = 3
  /\ inbound[1].outcome = "promise" /\ inbound[1].state = "replied"
  /\ sent[1] = ReplyEnvelope(inbound[2].id, inbound[2].value)
  /\ sent[2].action = HANDSHAKE_ACTION
  /\ sent[3] = ReplyEnvelope(inbound[1].id, HandlerValueOf(1))
  /\ last.op = "inbThen"

\* C14: when the promise returned by the user handler was rejected and every
\* promise job has run (nothing is left that could still answer), a reply
\* envelope with the id of that inbound call has been sent.
C14_RejectedStillReplied ==
  \A i \in DOMAIN inbound :
    (inbound[i].state = "rejected" /\ jobs = << >>) =>
      Replies(sent, inbound[i].id) # {}

----------------------------------------------------------------------------
(* Construction *)

\* C15: whenever the send target is not located (no container of message
\* handlers, or a container without an entry under the configured name), the
\* constructor fails: the instance never becomes ready (no entry point is
\* installed) and no envelope is ever sent.
C15_ConstructionFails ==
  transport # "present" =>
    /\ phase \in {"new", "failed"}
    /\ last.op = "construct" => last.threw
    /\ sent = << >>

C20_Step ==
  (phase = "new" /\ last'.op = "construct") =>
    IF last'.res = "autoHandshake"
    THEN transport = "present" =>
           /\ phase' = "ready"
           /\ Len(issued') = 1
           /\ sent' = <<Payload(CallbackGlobalDefault, issued'[1].value,
                                HANDSHAKE_ACTION, HandlerGlobalDefault)>>
           /\ sent'[1].type = MESSAGE_TYPE
           /\ ConnState' = "connecting"
    ELSE /\ sent' = << >>
         /\ calls' = << >>
         /\ _whenReady' = 0
         /\ ConnState' = "unconnected"

\* C20: with the send target located, the constructor called with
\* autoHandshake true (the default) sends exactly one envelope before it
\* returns: the handshake request, with the reserved handshake action, the
\* name of the inbound-call entry point as data and the name of the reply
\* entry point as callback, and leaves the state connecting (also when the
\* app answers inside postMessage); called with autoHandshake false it sends
\* nothing, makes no call and leaves the state unconnected.
C20_AutoHandshakeAtConstruction == [][C20_Step]_vars

\* the constructor has just run with autoHandshake true and the app
\* answered the handshake inside postMessage
C20_Witness ==
  /\ last.op = "construct" /\ last.res = "autoHandshake"
  /\ last.re # << >>
  /\ transport = "present"
  /\ Len(sent) = 1 /\ sent[1].action = HANDSHAKE_ACTION
  /\ ConnState = "connecting"

----------------------------------------------------------------------------
(* timestampIdGenerator *)

\* C16: two values returned by next() one right after the other always
\* differ, whatever the two clock readings: with equal readings the counter
\* of the second is the counter of the first plus one, with different
\* readings the counter of the second is 0.
C16_SuccessiveDiffer ==
  \A k \in 1..(Len(issued) - 1) :
    /\ issued[k + 1].value # issued[k].value
    /\ issued[k + 1].now = issued[k].now =>
         issued[k + 1].inc = issued[k].inc + 1
    /\ issued[k + 1].now # issued[k].now => issued[k + 1].inc = 0

\* the counter went up within one reading and was reset both by a larger
\* and by a smaller reading
C16_Witness ==
  \E j, k \in 2..(Len(issued) - 1) :
    /\ issued[j].inc > 0 /\ issued[j + 1].now > issued[j].now
    /\ issued[k].inc > 0 /\ issued[k + 1].now < issued[k].now

Nondecreasing(q) ==
  \A k \in 1..(Len(q) - 1) : q[k].now <= q[k + 1].now

\* C17: when the clock readings taken by the calls of next() never decrease,
\* no two calls return the same value.
C17_AllDistinct ==
  Nondecreasing(issued) =>
    \A j, k \in DOMAIN issued : j # k => issued[j].value # issued[k].value

----------------------------------------------------------------------------
(* Timeouts *)

C18_Step ==
  \A c \in OrdinaryCalls :
    (last'.op = "timer" /\ last'.n = c) =>
      /\ ConnState = "connected" /\ ConnState' = "connected"
      /\ sent' = sent
      /\ jobs' = jobs
      /\ listeners' = listeners \ {c}
      /\ \A d \in DOMAIN calls \ {c} :
           /\ calls'[d] = calls[d]
           /\ (d \in listeners /\ calls[d].state = "pending") =>
                d \in Listening(calls', listeners', calls[d].id)
      /\ DOMAIN calls' = DOMAIN calls
      /\ UNCHANGED <<phase, transport, opts, gen, issued, _connecting,
                     _connected, _whenReady, attempts, msgs, inbound>>

\* C18: when the timer of an ordinary call fires, the connection state is and
\* stays connected, no envelope is sent, no promise job is queued, only the
\* listener of that call is removed, and every other call keeps its state,
\* its timer and its listener, so that a reply with its id still reaches it.
C18_TimeoutTouchesOneCall == [][C18_Step]_vars

\* the timer of one ordinary call has just fired while another ordinary call
\* is pending with its timer armed and its listener registered
C18_Witness ==
  \E c, d \in OrdinaryCalls :
    /\ c # d
    /\ last.op = "timer" /\ last.n = c
    /\ calls[c].state = "rejected"
    /\ calls[d].state = "pending" /\ calls[d].timer = "armed"
    /\ d \in listeners

C19_NoTimer ==
  \A c \in DOMAIN calls :
    calls[c].timeout <= 0 =>
      /\ calls[c].timer = "none"
      /\ ~calls[c].rejectCalled
      /\ calls[c].state # "rejected"
      /\ calls[c].state = "pending" => c \in listeners

C19_Step ==
  \A c \in DOMAIN calls :
    (calls[c].timeout <= 0 /\ calls[c].state = "pending"
       /\ calls'[c].state # "pending") =>
      /\ last'.op = "reply"
      /\ last'.id = calls[c].id
      /\ calls'[c].state = "resolved"
      /\ calls'[c].value = last'.res

\* C19: a call made with a timeout of 0 or less has no timer and is never
\* rejected; while it is pending its listener stays registered, and the only
\* step that settles it is a reply with its id, which resolves it with the
\* payload of that reply, however many timers of other calls fired before.
C19_NoTimeoutWaitsForReply == [](C19_NoTimer) /\ [][C19_Step]_vars

\* an ordinary call made with timeout 0 has just been resolved by its reply,
\* after the timer of a call made later had already fired; the handshake
\* call of that channel was made with a negative timeout
C19_Witness ==
  \E c, d \in OrdinaryCalls :
    /\ c < d
    /\ calls[c].timeout = 0 /\ calls[c].state = "resolved"
    /\ calls[d].timer = "fired"
    /\ last.op = "reply" /\ last.id = calls[c].id
    /\ calls[c].value = last.res
    /\ \E h \in HsCalls : calls[h].timeout < 0 /\ calls[h].state = "resolved"

----------------------------------------------------------------------------
(* The registry of waiters *)

\* C21: in every state the calls whose callbackReceived is registered with
\* the emitter are exactly the calls that were made and are not yet settled:
\* no listener remains for a call that a reply resolved, and none for a call
\* that timed out.
C21_WaitersArePending ==
  listeners = {c \in DOMAIN calls : calls[c].state = "pending"}

C22_NoUnsettled(id) ==
  \A c \in DOMAIN calls : calls[c].id = id => calls[c].state # "pending"

C22_Step ==
  (last'.op = "reply" /\ C22_NoUnsettled(last'.id)) =>
    /\ ~last'.threw
    /\ \A c \in DOMAIN calls :
         /\ calls'[c].state = calls[c].state
         /\ calls'[c].value = calls[c].value
         /\ calls'[c].timer = calls[c].timer
    /\ \A m \in DOMAIN msgs : MsgDeferred(m)' = MsgDeferred(m)
    /\ UNCHANGED progVars

\* C22: a call of window[callbackGlobal] with an id under which no call is
\* pending (an id never generated, the id of a call already resolved, the id
\* of a call that timed out) throws nothing and changes nothing: no promise
\* of a call or of a sendMessage changes state or value, no timer changes,
\* the connection flags, the listeners, the promise jobs and the envelopes
\* sent stay as they were.
C22_StrayReplyIsNoop == [][C22_Step]_vars

\* a second reply, with another payload, has just been delivered for a call
\* that is already resolved, while another call is pending with its timer
\* armed
C22_Witness ==
  \E c, d \in DOMAIN calls :
    /\ calls[c].state = "resolved"
    /\ c \in listeners
    /\ last.op = "reply" /\ last.id = calls[c].id
    /\ last.res \notin {"", calls[c].value}
    /\ calls[d].state = "pending" /\ calls[d].timer = "armed"

----------------------------------------------------------------------------
(* No automatic retries *)

\* the handshake call behind the current _whenReady has timed out
C23_TimedOut ==
  _whenReady # 0 /\ calls[attempts[_whenReady].call].timer = "fired"

C23_Rejected ==
  \A m \in DOMAIN msgs :
    calls[attempts[msgs[m].att].call].timer = "fired" =>
      /\ msgs[m].call = 0
      /\ jobs = << >> =>
           MsgDeferred(m) = [state |-> "rejected",
                             value |-> HandshakeTimeoutReason]

C23_Count == Cardinality(HsEnvelopes(sent)) = Len(attempts)

C23_Step ==
  (last'.op = "sendMessage" /\ C23_TimedOut) =>
    /\ sent' = sent
    /\ calls' = calls
    /\ issued' = issued
    /\ attempts' = attempts
    /\ _whenReady' = _whenReady
    /\ Len(msgs') = Len(msgs) + 1
    /\ msgs'[Len(msgs')].att = _whenReady

C23_Starts ==
  Len(attempts') # Len(attempts) =>
    /\ Len(attempts') = Len(attempts) + 1
    /\ \/ last'.op = "construct"
       \/ last'.op = "sendHandshake" /\ ConnState = "unconnected"
       \/ last'.op = "sendMessage" /\ _whenReady = 0

\* C23: a sendMessage made after the handshake call behind _whenReady timed
\* out, and before another sendHandshake(), starts no attempt, generates no
\* id and sends nothing; it waits on the failed attempt, never makes a call,
\* and once the promise jobs have run it is rejected with the handshake
\* timeout reason.  The handshake envelopes sent are as many as the attempts,
\* and an attempt is started only by the constructor, by sendHandshake() in
\* the unconnected state, or by a sendMessage made while _whenReady is
\* undefined.
C23_NoAutomaticRetry ==
  [](C23_Rejected /\ C23_Count) /\ [][C23_Step /\ C23_Starts]_vars

\* sendMessage has just been called on a channel whose only handshake
\* attempt failed: the state is unconnected and one envelope was ever sent
C23_Witness ==
  /\ last.op = "sendMessage"
  /\ C23_TimedOut
  /\ attempts[_whenReady].ready = "rejected"
  /\ ConnState = "unconnected"
  /\ Len(attempts) = 1 /\ Len(sent) = 1
  /\ msgs[Len(msgs)].att = _whenReady
  /\ \E k \in DOMAIN jobs : jobs[k] = Job("msgThen", Len(msgs), "")

----------------------------------------------------------------------------
(* Replies delivered inside postMessage *)

C24_Step ==
  last'.re # << >> =>
    LET c == Len(calls')
    IN  /\ c = Len(calls) + 1
        /\ Len(sent') = Len(sent) + 1
        /\ sent'[Len(sent')].id = calls'[c].id
        /\ c \in listeners'
        /\ calls'[c].resolveCalled
        /\ calls'[c].state = "resolved"
        /\ calls'[c].value = last'.re[1]
        /\ calls'[c].timer = IF calls'[c].timeout > 0 THEN "cleared"
                             ELSE "none"
        /\ c \in HsCalls' => \E k \in DOMAIN jobs' :
                                jobs'[k].type = "hsThen"
                                /\ attempts'[jobs'[k].n].call = c

\* C24: whenever the app answers an envelope inside the postMessage call
\* that hands it over, the call just made is resolved with the payload of
\* that answer when the operation returns: its listener was registered and
\* its timer armed before postMessage, so callbackReceived ran, cancelled
\* the timer (if one was armed) and resolved the promise; for a handshake
\* call the reaction that connects the channel is queued.  This holds for
\* the handshake call and for ordinary calls.
C24_ReentrantReplyResolves == [][C24_Step]_vars

\* an ordinary call made with a timer was answered inside postMessage, on a
\* channel whose handshake call was resolved too
C24_Witness ==
  /\ last.op = "msgThen" /\ last.re # << >>
  /\ Len(calls) \in OrdinaryCalls
  /\ calls[Len(calls)].state = "resolved"
  /\ calls[Len(calls)].value = last.re[1]
  /\ calls[Len(calls)].timer = "cleared"
  /\ \E h \in HsCalls : calls[h].state = "resolved" /\ calls[h].timer = "cleared"

----------------------------------------------------------------------------
(* What connects the channel *)

\* the call of the handshake attempt in flight: 0 when none is
C25_InFlight ==
  IF _whenReady # 0 /\ calls[attempts[_whenReady].call].state = "pending"
  THEN attempts[_whenReady].call
  ELSE 0

C25_Connects ==
  (~_connected /\ _connected') =>
    /\ last'.op = "hsThen"
    /\ last'.n = _whenReady
    /\ _connecting
    /\ calls[attempts[_whenReady].call].state = "resolved"
    /\ calls[attempts[_whenReady].call].resolveCalled
    /\ ~calls[attempts[_whenReady].call].rejectCalled

C25_Resolves ==
  \A a \in DOMAIN attempts :
    (calls[attempts[a].call].state = "pending"
       /\ calls'[attempts[a].call].state = "resolved") =>
      /\ last'.op = "reply"
      /\ last'.id = calls[attempts[a].call].id
      /\ a = _whenReady

C25_OtherReply ==
  (/\ last'.op = "reply"
   /\ \/ C25_InFlight = 0
      \/ last'.id # calls[C25_InFlight].id) =>
    /\ _connected' = _connected
    /\ _connecting' = _connecting
    /\ jobs' = jobs
    /\ attempts' = attempts

\* C25: _connected turns true only in the reaction on the handshake call of
\* the attempt behind _whenReady, and only when that call was resolved, which
\* only a reply carrying its id does, while it is pending.  A reply with any
\* other id (the id of an attempt that timed out, of an ordinary call, or an
\* id never generated) changes neither flag and queues no reaction, also
\* while a retry is in flight.
C25_OnlyOwnReplyConnects ==
  [][C25_Connects /\ C25_Resolves /\ C25_OtherReply]_vars

\* while the second attempt is in flight, a reply carrying the id of the
\* first attempt, which timed out, has just been delivered: the channel is
\* still connecting
C25_Witness ==
  /\ Len(attempts) = 2 /\ _whenReady = 2
  /\ calls[attempts[1].call].timer = "fired"
  /\ calls[attempts[2].call].state = "pending"
  /\ calls[attempts[1].call].id # calls[attempts[2].call].id
  /\ last.op = "reply" /\ last.id = calls[attempts[1].call].id
  /\ ConnState = "connecting"

----------------------------------------------------------------------------
(* Order of sending and of ids *)

C26_IsRequest(e) == e.action # CALLBACK_ACTION

C26_IsOrdinary(e) == e.action \notin {HANDSHAKE_ACTION, CALLBACK_ACTION}

\* the request envelopes (handshake and ordinary) in the order sent
C26_Requests == SelectSeq(sent, C26_IsRequest)

\* the ordinary envelopes in the order sent
C26_Ordinary == SelectSeq(sent, C26_IsOrdinary)

\* sendMessage calls that wait on the same attempt are sent in call order
C26_CallOrder ==
  \A m1, m2 \in DOMAIN msgs :
    (m1 < m2 /\ msgs[m1].att = msgs[m2].att /\ msgs[m2].stage = "sent") =>
      /\ msgs[m1].stage = "sent"
      /\ msgs[m1].call < msgs[m2].call
      /\ \E k1, k2 \in DOMAIN sent :
           /\ k1 < k2
           /\ sent[k1].id = calls[msgs[m1].call].id
           /\ sent[k1].action = msgs[m1].action
           /\ sent[k2].id = calls[msgs[m2].call].id
           /\ sent[k2].action = msgs[m2].action

\* C26 as claimed: calls behind one attempt are sent in call order, every
\* handshake envelope carries the first id the generator returned, and the
\* k-th ordinary envelope sent carries the (k+1)-th.
C26_IdsAsClaimed ==
  /\ C26_CallOrder
  /\ \A k \in HsEnvelopes(sent) : sent[k].id = issued[1].value
  /\ \A k \in DOMAIN C26_Ordinary :
       /\ k + 1 <= Len(issued)
       /\ C26_Ordinary[k].id = issued[k + 1].value

C26_SendOrder ==
  /\ C26_CallOrder
  /\ Len(C26_Requests) = IF transport = "present" THEN Len(issued) ELSE 0
  /\ \A j \in DOMAIN C26_Requests : C26_Requests[j].id = issued[j].value
  /\ (Len(attempts) = 1 /\ C26_Requests # << >>) =>
       /\ C26_Requests[1].action = HANDSHAKE_ACTION
       /\ \A k \in DOMAIN C26_Ordinary :
            C26_Ordinary[k].id = issued[k + 1].value

C26_DrawnAtSend ==
  /\ (last'.op = "sendMessage" /\ _whenReady # 0) => issued' = issued
  /\ Len(issued') # Len(issued) =>
       /\ Len(issued') = Len(issued) + 1
       /\ transport = "present" =>
            /\ Len(sent') = Len(sent) + 1
            /\ sent'[Len(sent')].id = issued'[Len(issued')].value
  /\ Len(C26_Requests') # Len(C26_Requests) =>
       Len(issued') = Len(issued) + 1

\* C26 (amended): sendMessage calls that wait on the same handshake attempt
\* are sent, once it succeeds, in the order in which they were made; an id
\* is drawn from the generator in the step that sends the envelope, never
\* when sendMessage is called on a channel that has a handshake, so the j-th
\* request envelope sent (handshake or ordinary) carries the j-th generated
\* id; on a channel with a single handshake attempt the handshake envelope
\* carries the first id and the k-th ordinary envelope the (k+1)-th.
C26_SentInCallOrder == [](C26_SendOrder) /\ [][C26_DrawnAtSend]_vars

\* two sendMessage calls waited on the same pending attempt (the first one
\* started it) and were sent after it succeeded, with the second and the
\* third id
C26_Witness ==
  /\ Len(attempts) = 1 /\ Len(msgs) = 2 /\ Len(sent) = 3
  /\ msgs[1].stage = "sent" /\ msgs[2].stage = "sent"
  /\ sent[1].action = HANDSHAKE_ACTION /\ sent[1].id = issued[1].value
  /\ sent[2].action = msgs[1].action /\ sent[2].id = issued[2].value
  /\ sent[3].action = msgs[2].action /\ sent[3].id = issued[3].value
  /\ last.op = "msgThen" /\ last.n = 2

----------------------------------------------------------------------------
(* Every deferred settles *)

\* the timeout of the handshake call of attempt a
C27_HsTimeout(a) == calls[attempts[a].call].timeout

\* every promise returned for an operation made with positive timeouts is
\* settled
C27_AllSettled ==
  /\ \A a \in DOMAIN attempts :
       C27_HsTimeout(a) > 0 => attempts[a].ready # "pending"
  /\ \A m \in DOMAIN msgs :
       (msgs[m].timeout > 0 /\ C27_HsTimeout(msgs[m].att) > 0) =>
         MsgDeferred(m).state # "pending"

\* C27: when timers eventually fire and promise jobs eventually run, the
\* promise returned by sendHandshake() for an attempt made with a positive
\* handshake timeout, and the promise returned by a sendMessage made with a
\* positive timeout behind such an attempt, eventually settle, whatever
\* replies the app delivers or withholds: again and again a state is reached
\* in which every such promise made so far is settled (a settled promise
\* stays settled, so each of them settles after finitely many steps).
C27_EveryDeferredSettles == []<>C27_AllSettled

\* no reply was ever accepted: the handshake timed out and was retried, the
\* retry timed out too, and the sendMessage that waited on the retry has
\* just been rejected
C27_Witness ==
  /\ Len(attempts) = 2 /\ Len(msgs) = 1
  /\ \A c \in DOMAIN calls : ~calls[c].resolveCalled /\ calls[c].timer = "fired"
  /\ msgs[1].att = 2 /\ msgs[1].timeout > 0
  /\ MsgDeferred(1) = [state |-> "rejected", value |-> HandshakeTimeoutReason]
  /\ attempts[1].ready = "rejected" /\ attempts[2].ready = "rejected"
  /\ last.op = "msgThen"

====
